---- MODULE Spec2Model ----
(***************************************************************************)
(* ConfigTree (configx/core/tree.py): a hierarchical store addressed by    *)
(* dotted path strings.  A Python str is a sequence of one-character       *)
(* strings, a Node is a record [name, value, type, children] whose         *)
(* children field is a function from segment strings to Nodes, and the     *)
(* tree object is the pair (root, strict_mode).                            *)
(***************************************************************************)
EXTENDS Integers, Sequences, FiniteSets, TLC

VARIABLES root, strict_mode, last, before, file

vars == <<root, strict_mode, last, before, file>>

(***************************************************************************)
(* Bounds of the model.                                                    *)
(***************************************************************************)
\* calls that would grow the tree beyond this many nodes below root are not taken
MaxNodes == 4
\* most top-level entries of a mapping given to load_dict
MaxItems == 2

(***************************************************************************)
(* Python strings and scalars.                                             *)
(***************************************************************************)
Str_a == <<"a">>
Str_root == <<"r", "o", "o", "t">>
Dot == <<".">>
Space == <<" ">>
EmptyStr == <<>>

\* the object None handed in where a str is expected
PyNone == <<"None-object">>

\* a scalar is its intrinsic Python class and its rendering
PyStr(s) == [kind |-> "str", repr |-> s]
PyInt(s) == [kind |-> "int", repr |-> s]
PyFloat(s) == [kind |-> "float", repr |-> s]
PyBool(b) == [kind |-> "bool", repr |-> IF b THEN "True" ELSE "False"]
NoneValue == [kind |-> "NoneType", repr |-> "None"]

Scalars == {PyStr("1"), PyInt("1"), PyFloat("1.0"), PyBool(TRUE), NoneValue}

\* isinstance(v, cls): bool is a subclass of int
isinstance(v, cls) == v.kind = cls \/ (cls = "int" /\ v.kind = "bool")

(***************************************************************************)
(* Primitive projections: a scalar or a mapping from str keys.             *)
(***************************************************************************)
NoItems == <<>>
PrimScalar(v) == [tag |-> "scalar", val |-> v, items |-> NoItems]
PrimDict(m) == [tag |-> "dict", val |-> NoneValue, items |-> m]
EmptyDict == PrimDict(NoItems)

(***************************************************************************)
(* Node (configx/core/node.py).                                            *)
(***************************************************************************)
NoType == "unset"
NoChildren == <<>>

NewNode(name) ==
    [name |-> name, value |-> NoneValue, type |-> NoType, children |-> NoChildren]

infer_type(value) ==
    IF isinstance(value, "bool") THEN "bool"
    ELSE IF isinstance(value, "int") THEN "int"
    ELSE IF isinstance(value, "float") THEN "float"
    ELSE IF isinstance(value, "str") THEN "str"
    ELSE "null"

RECURSIVE to_primitive(_)
to_primitive(node) ==
    IF DOMAIN node.children # {}
    THEN PrimDict([k \in DOMAIN node.children |-> to_primitive(node.children[k])])
    ELSE IF node.type = NoType THEN EmptyDict
    ELSE PrimScalar(node.value)

(***************************************************************************)
(* ConfigTree._split                                                       *)
(***************************************************************************)
RECURSIVE lstrip(_)
lstrip(s) == IF s # <<>> /\ Head(s) = " " THEN lstrip(Tail(s)) ELSE s

RECURSIVE rstrip(_)
rstrip(s) ==
    IF s # <<>> /\ s[Len(s)] = " " THEN rstrip(SubSeq(s, 1, Len(s) - 1)) ELSE s

\* strip that takes the blanks off the front only
strip_front_only(s) == lstrip(s)

strip(s) == rstrip(lstrip(s))

\* s.split("."): the pieces between dots, empty pieces included
RECURSIVE split(_, _)
split(s, piece) ==
    IF s = <<>> THEN <<piece>>
    ELSE IF Head(s) = "." THEN <<piece>> \o split(Tail(s), <<>>)
    ELSE split(Tail(s), Append(piece, Head(s)))

RECURSIVE NonEmpty(_)
NonEmpty(pieces) ==
    IF pieces = <<>> THEN <<>>
    ELSE IF Head(pieces) # <<>> THEN <<Head(pieces)>> \o NonEmpty(Tail(pieces))
    ELSE NonEmpty(Tail(pieces))

\* [raised, parts]
_split(path) ==
    IF path = PyNone THEN [raised |-> "ConfigInvalidPathError", parts |-> <<>>]
    ELSE LET parts == NonEmpty(split(strip(path), <<>>))
         IN  IF Len(parts) = 0
             THEN [raised |-> "ConfigInvalidPathError", parts |-> <<>>]
             ELSE [raised |-> "none", parts |-> parts]

\* ".".join(parts)
RECURSIVE join(_)
join(parts) ==
    IF parts = <<>> THEN <<>>
    ELSE IF Len(parts) = 1 THEN parts[1]
    ELSE parts[1] \o Dot \o join(Tail(parts))

(***************************************************************************)
(* References into the tree: a node is named by the keys leading to it.    *)
(***************************************************************************)
RECURSIVE NodeAt(_, _)
NodeAt(node, keys) ==
    IF keys = <<>> THEN node ELSE NodeAt(node.children[Head(keys)], Tail(keys))

\* children[key] = child
Put(children, key, child) ==
    [k \in DOMAIN children \cup {key} |-> IF k = key THEN child ELSE children[k]]

\* children.pop(key)
Pop(children, key) == [k \in DOMAIN children \ {key} |-> children[k]]

\* the tree with the node at keys replaced by new
RECURSIVE Replace(_, _, _)
Replace(node, keys, new) ==
    IF keys = <<>> THEN new
    ELSE [node EXCEPT !.children =
            Put(node.children, Head(keys),
                Replace(node.children[Head(keys)], Tail(keys), new))]

(***************************************************************************)
(* ConfigTree._walk: the loop over enumerate(parts), from index idx on,    *)
(* with the tree as mutated so far.  [raised, found, root, ref]            *)
(***************************************************************************)
\* the loop with the new node attached before strict mode is looked at
RECURSIVE WalkLoop_attach_first(_, _, _, _, _)
WalkLoop_attach_first(r, parts, idx, create_missing, strict) ==
    IF idx > Len(parts)
    THEN [raised |-> "none", found |-> TRUE, root |-> r, ref |-> parts]
    ELSE LET here == SubSeq(parts, 1, idx - 1)
             node == NodeAt(r, here)
             part == parts[idx]
             grown == Replace(r, here,
                        [node EXCEPT !.children = Put(node.children, part, NewNode(part))])
         IN  IF part \in DOMAIN node.children
             THEN WalkLoop_attach_first(r, parts, idx + 1, create_missing, strict)
             ELSE IF create_missing
             THEN IF strict
                  THEN [raised |-> "ConfigStrictModeError", found |-> FALSE,
                        root |-> grown, ref |-> <<>>]
                  ELSE WalkLoop_attach_first(grown, parts, idx + 1, create_missing, strict)
             ELSE [raised |-> "none", found |-> FALSE, root |-> r, ref |-> <<>>]

RECURSIVE WalkLoop(_, _, _, _, _)
WalkLoop(r, parts, idx, create_missing, strict) ==
    IF idx > Len(parts)
    THEN [raised |-> "none", found |-> TRUE, root |-> r, ref |-> parts]
    ELSE LET here == SubSeq(parts, 1, idx - 1)
             node == NodeAt(r, here)
             part == parts[idx]
         IN  IF part \in DOMAIN node.children
             THEN WalkLoop(r, parts, idx + 1, create_missing, strict)
             ELSE IF create_missing
             THEN IF strict
                  THEN [raised |-> "ConfigStrictModeError", found |-> FALSE,
                        root |-> r, ref |-> <<>>]
                  ELSE WalkLoop(
                         Replace(r, here,
                            [node EXCEPT !.children = Put(node.children, part, NewNode(part))]),
                         parts, idx + 1, create_missing, strict)
             ELSE [raised |-> "none", found |-> FALSE, root |-> r, ref |-> <<>>]

\* the walk that creates what is missing whatever the strict flag
_walk_unrestricted(r, strict, path, create_missing) ==
    LET sp == _split(path)
    IN  IF sp.raised # "none"
        THEN [raised |-> sp.raised, found |-> FALSE, root |-> r, ref |-> <<>>]
        ELSE WalkLoop(r, sp.parts, 1, create_missing, FALSE)

_walk(r, strict, path, create_missing) ==
    LET sp == _split(path)
    IN  IF sp.raised # "none"
        THEN [raised |-> sp.raised, found |-> FALSE, root |-> r, ref |-> <<>>]
        ELSE WalkLoop(r, sp.parts, 1, create_missing, strict)

(***************************************************************************)
(* The public operations.  Each yields [raised, ret, root]: the exception  *)
(* raised ("none" when the call returns), the returned object as a         *)
(* primitive, and the tree the call leaves behind.                         *)
(***************************************************************************)
NoRet == PrimScalar(NoneValue)

Raise(exc, r) == [raised |-> exc, ret |-> NoRet, root |-> r]
Return(ret, r) == [raised |-> "none", ret |-> ret, root |-> r]

\* get that resolves as a write does
get_creating(r, strict, path) ==
    LET w == _walk(r, strict, path, TRUE)
    IN  IF w.raised # "none" THEN Raise(w.raised, w.root)
        ELSE IF ~w.found THEN Raise("ConfigPathNotFoundError", w.root)
        ELSE Return(to_primitive(NodeAt(w.root, w.ref)), w.root)

get(r, strict, path) ==
    LET w == _walk(r, strict, path, FALSE)
    IN  IF w.raised # "none" THEN Raise(w.raised, w.root)
        ELSE IF ~w.found THEN Raise("ConfigPathNotFoundError", w.root)
        ELSE Return(to_primitive(NodeAt(w.root, w.ref)), w.root)

\* store, keeping the text of the value only
store_as_text(r, ref, value) ==
    LET node == NodeAt(r, ref)
    IN  IF Cardinality(DOMAIN node.children) > 0
        THEN Raise("ConfigNodeStructureError", r)
        ELSE Return(PrimScalar(value),
               Replace(r, ref,
                  [node EXCEPT !.value = PyStr(value.repr),
                               !.type = infer_type(value),
                               !.children = NoChildren]))

\* store, without the guard: the assignment replaces whatever the node owned
store_unguarded(r, ref, value) ==
    LET node == NodeAt(r, ref)
    IN  Return(PrimScalar(value),
               Replace(r, ref,
                  [node EXCEPT !.value = value,
                               !.type = infer_type(value),
                               !.children = NoChildren]))

\* the mutual-exclusion guard and the assignment, on the node _walk returned
store(r, ref, value) ==
    LET node == NodeAt(r, ref)
    IN  IF Cardinality(DOMAIN node.children) > 0
        THEN Raise("ConfigNodeStructureError", r)
        ELSE Return(PrimScalar(value),
               Replace(r, ref,
                  [node EXCEPT !.value = value,
                               !.type = infer_type(value),
                               !.children = NoChildren]))

set(r, strict, path, value) ==
    LET sp == _split(path)
    IN  IF sp.raised # "none" THEN Raise(sp.raised, r)
        ELSE IF sp.parts = <<>> THEN Raise("ConfigInvalidPathError", r)
        ELSE LET w == _walk(r, strict, path, TRUE)
             IN  IF w.raised # "none" THEN Raise(w.raised, w.root)
                 ELSE IF ~w.found THEN Raise("ConfigPathNotFoundError", w.root)
                 ELSE store(w.root, w.ref, value)

\* the test made on the path as written
is_root_path_as_written(path, parts) == path = Str_root

\* the test that refuses to delete the root
is_root_path(path, parts) == Len(parts) = 1 /\ parts[1] = Str_root

delete(r, strict, path) ==
    LET sp == _split(path)
        parts == sp.parts
    IN  IF sp.raised # "none" THEN Raise(sp.raised, r)
        ELSE IF is_root_path(path, parts)
        THEN Raise("ConfigNodeStructureError", r)
        ELSE LET parent_path == join(SubSeq(parts, 1, Len(parts) - 1))
                 w == IF parent_path # EmptyStr
                      THEN _walk(r, strict, parent_path, FALSE)
                      ELSE [raised |-> "none", found |-> TRUE, root |-> r, ref |-> <<>>]
                 key == parts[Len(parts)]
             IN  IF w.raised # "none" THEN Raise(w.raised, w.root)
                 ELSE IF ~w.found THEN Return(PrimScalar(PyBool(FALSE)), w.root)
                 ELSE LET parent == NodeAt(w.root, w.ref)
                      IN  IF key \notin DOMAIN parent.children
                          THEN Return(PrimScalar(PyBool(FALSE)), w.root)
                          ELSE Return(PrimScalar(PyBool(TRUE)),
                                 Replace(w.root, w.ref,
                                    [parent EXCEPT !.children = Pop(parent.children, key)]))

to_dict(r) == IF DOMAIN r.children # {} THEN to_primitive(r) ELSE EmptyDict

\* the flag, once on, stays on
set_strict_mode_sticky(enabled) == TRUE

set_strict_mode(enabled) == enabled

(***************************************************************************)
(* load_dict.  Its argument is any object: a dict is the sequence of its   *)
(* (key, value) pairs in iteration order, and a key is any scalar.         *)
(***************************************************************************)
DataScalar(v) == [tag |-> "scalar", val |-> v, items |-> <<>>]
DataDict(pairs) == [tag |-> "dict", val |-> NoneValue, items |-> pairs]
Pair(k, d) == [key |-> k, value |-> d]

\* Node.from_primitive(name, value)
RECURSIVE from_primitive(_, _)
from_primitive(name, data) ==
    IF data.tag = "dict"
    THEN [name |-> name, value |-> NoneValue, type |-> NoType,
          children |-> [k \in {data.items[i].key.repr : i \in DOMAIN data.items} |->
                          LET i == CHOOSE j \in DOMAIN data.items : data.items[j].key.repr = k
                          IN  from_primitive(k, data.items[i].value)]]
    ELSE [name |-> name, value |-> data.val, type |-> infer_type(data.val),
          children |-> NoChildren]

\* the loop that returns once it has attached a pair
RECURSIVE LoadLoop_one_pair(_, _, _)
LoadLoop_one_pair(r, pairs, i) ==
    IF i > Len(pairs) THEN Return(NoRet, r)
    ELSE IF ~isinstance(pairs[i].key, "str")
    THEN Raise("ConfigInvalidFormatError", r)
    ELSE Return(NoRet,
           [r EXCEPT !.children =
               Put(r.children, pairs[i].key.repr,
                   from_primitive(pairs[i].key.repr, pairs[i].value))])

\* the loop over data.items(), from pair i on, with the tree as built so far
RECURSIVE LoadLoop(_, _, _)
LoadLoop(r, pairs, i) ==
    IF i > Len(pairs) THEN Return(NoRet, r)
    ELSE IF ~isinstance(pairs[i].key, "str")
    THEN Raise("ConfigInvalidFormatError", r)
    ELSE LoadLoop(
           [r EXCEPT !.children =
               Put(r.children, pairs[i].key.repr,
                   from_primitive(pairs[i].key.repr, pairs[i].value))],
           pairs, i + 1)

\* load_dict that builds on the tree it finds
load_dict_onto(r, data) ==
    IF data.tag # "dict" THEN Raise("ConfigInvalidFormatError", r)
    ELSE LoadLoop(r, data.items, 1)

load_dict(r, data) ==
    IF data.tag # "dict" THEN Raise("ConfigInvalidFormatError", r)
    ELSE LoadLoop(NewNode(Str_root), data.items, 1)

(***************************************************************************)
(* Binary persistence: save_to_bin hands to_dict() to the codec, and       *)
(* load_from_bin hands what the codec reads back to load_dict.  The file   *)
(* is a sequence of fields; a scalar is written as a field naming its kind *)
(* and a field with its text, a mapping as a marker, the count of its      *)
(* entries, and for each entry its key and its value.                      *)
(***************************************************************************)
NoFile == <<>>

TagOf(v) ==
    IF isinstance(v, "bool") THEN <<"B">>
    ELSE IF isinstance(v, "int") THEN <<"I">>
    ELSE IF isinstance(v, "float") THEN <<"F">>
    ELSE IF isinstance(v, "str") THEN <<"S">>
    ELSE <<"N">>

KindOf(tag) ==
    IF tag = <<"B">> THEN "bool"
    ELSE IF tag = <<"I">> THEN "int"
    ELSE IF tag = <<"F">> THEN "float"
    ELSE IF tag = <<"S">> THEN "str"
    ELSE "NoneType"

\* a count, one mark for each
Count(n) == [i \in 1..n |-> "|"]

RECURSIVE Encode(_)
Encode(prim) ==
    IF prim.tag = "dict"
    THEN LET RECURSIVE Entries(_)
             Entries(ks) ==
                 IF ks = {} THEN <<>>
                 ELSE LET k == CHOOSE x \in ks : TRUE
                      IN  <<k>> \o Encode(prim.items[k]) \o Entries(ks \ {k})
         IN  <<<<"D">>, Count(Cardinality(DOMAIN prim.items))>> \o Entries(DOMAIN prim.items)
    ELSE <<TagOf(prim.val), <<prim.val.repr>>>>

\* [ok, data, rest]: the object the fields start with, and the fields after it
RECURSIVE Decode(_)
RECURSIVE DecodeEntries(_, _)
Decode(fields) ==
    IF Len(fields) < 2 THEN [ok |-> FALSE, data |-> DataDict(<<>>), rest |-> <<>>]
    ELSE IF fields[1] = <<"D">>
    THEN LET e == DecodeEntries(Tail(Tail(fields)), Len(fields[2]))
         IN  [ok |-> e.ok, data |-> DataDict(e.pairs), rest |-> e.rest]
    ELSE IF fields[1] \in {<<"B">>, <<"I">>, <<"F">>, <<"S">>, <<"N">>} /\ Len(fields[2]) = 1
    THEN [ok |-> TRUE,
          data |-> DataScalar([kind |-> KindOf(fields[1]), repr |-> fields[2][1]]),
          rest |-> Tail(Tail(fields))]
    ELSE [ok |-> FALSE, data |-> DataDict(<<>>), rest |-> <<>>]

\* [ok, pairs, rest]: n entries, each a key and an object
DecodeEntries(fields, n) ==
    IF n = 0 THEN [ok |-> TRUE, pairs |-> <<>>, rest |-> fields]
    ELSE IF fields = <<>> THEN [ok |-> FALSE, pairs |-> <<>>, rest |-> <<>>]
    ELSE LET v == Decode(Tail(fields))
             more == DecodeEntries(v.rest, n - 1)
         IN  IF ~v.ok \/ ~more.ok THEN [ok |-> FALSE, pairs |-> <<>>, rest |-> <<>>]
             ELSE [ok |-> TRUE,
                   pairs |-> <<Pair(PyStr(Head(fields)), v.data)>> \o more.pairs,
                   rest |-> more.rest]

\* [raised, ret, root, file]
save_to_bin(r, f) ==
    [raised |-> "none", ret |-> NoRet, root |-> r, file |-> Encode(to_dict(r))]

load_from_bin(r, f) ==
    IF f = NoFile THEN Raise("IOError", r)
    ELSE LET d == Decode(f)
         IN  IF ~d.ok \/ d.rest # <<>> \/ d.data.tag # "dict" THEN Raise("FormatError", r)
             ELSE load_dict(r, d.data)

(***************************************************************************)
(* What the calls are given.                                               *)
(***************************************************************************)
RECURSIVE SeqsUpTo(_, _)
SeqsUpTo(S, n) ==
    IF n = 0 THEN {<<>>}
    ELSE LET shorter == SeqsUpTo(S, n - 1)
         IN  shorter \cup {Append(q, x) : q \in {t \in shorter : Len(t) = n - 1}, x \in S}

\* parts with an empty piece after each but the last: joined, the dots double
RECURSIVE Doubled(_)
Doubled(parts) ==
    IF Len(parts) <= 1 THEN parts
    ELSE <<Head(parts), EmptyStr>> \o Doubled(Tail(parts))

\* ways of writing the path that has these parts
Written(parts) ==
    {join(parts), Space \o join(parts) \o Space, Dot \o join(parts) \o Dot,
     join(Doubled(parts))}

\* the paths the calls address; one has a segment that ends in a blank
PathParts == {<<Str_a>>, <<Str_root>>, <<Str_a, Str_a>>, <<Str_a \o Space, Str_a>>}

PathInputs ==
    UNION {Written(parts) : parts \in PathParts}
    \cup {EmptyStr, Space, Dot, PyNone}

\* the entries a saved tree is built from
EntryPaths == {join(<<Str_a, Str_a>>), join(<<Str_a>>), join(<<Str_root>>)}

Keys == {PyStr(Str_a), PyStr(Str_root), PyInt(<<"1">>)}

NestedInputs == {DataScalar(PyInt("1")), DataDict(<<>>),
                 DataDict(<<Pair(PyStr(Str_a), DataScalar(PyStr("1")))>>)}

DataInputs ==
    {DataDict(pairs) :
        pairs \in {q \in SeqsUpTo({Pair(k, d) : k \in Keys, d \in NestedInputs}, MaxItems) :
                     \A i, j \in DOMAIN q : i # j => q[i].key # q[j].key}}
    \cup {DataScalar(PyInt("1"))}

RECURSIVE Size(_)
Size(node) ==
    LET RECURSIVE Sum(_)
        Sum(ks) == IF ks = {} THEN 0
                   ELSE LET k == CHOOSE x \in ks : TRUE
                        IN  1 + Size(node.children[k]) + Sum(ks \ {k})
    IN  Sum(DOMAIN node.children)

(***************************************************************************)
(* The state machine.  The tree is used by one caller, one call at a time  *)
(* (no call overlaps another): a call runs to its end and leaves in last   *)
(* what it was given and how it ended, and in before the tree as it found  *)
(* it; the caller takes that outcome and goes on to its next call.         *)
(***************************************************************************)
Call(op, path, arg, res) ==
    [op |-> op, path |-> path, arg |-> arg, raised |-> res.raised, ret |-> res.ret]

NoCall == [op |-> "none", path |-> EmptyStr, arg |-> NoRet, raised |-> "none", ret |-> NoRet]

Init ==
    /\ root = NewNode(Str_root)
    /\ strict_mode \in BOOLEAN
    /\ last = NoCall
    /\ before = root
    /\ file = NoFile

Get ==
    /\ last = NoCall
    /\ \E p \in PathInputs :
        LET res == get(root, strict_mode, p)
        IN  /\ root' = res.root
            /\ last' = Call("get", p, NoRet, res)
            /\ before' = root
            /\ UNCHANGED <<strict_mode, file>>

Set ==
    /\ last = NoCall
    /\ \E p \in PathInputs, v \in Scalars :
        LET res == set(root, strict_mode, p, v)
        IN  /\ Size(res.root) <= MaxNodes
            /\ root' = res.root
            /\ last' = Call("set", p, PrimScalar(v), res)
            /\ before' = root
            /\ UNCHANGED <<strict_mode, file>>

Delete ==
    /\ last = NoCall
    /\ \E p \in PathInputs :
        LET res == delete(root, strict_mode, p)
        IN  /\ root' = res.root
            /\ last' = Call("delete", p, NoRet, res)
            /\ before' = root
            /\ UNCHANGED <<strict_mode, file>>

LoadDict ==
    /\ last = NoCall
    /\ \E data \in DataInputs :
        LET res == load_dict(root, data)
        IN  /\ Size(res.root) <= MaxNodes
            /\ root' = res.root
            /\ last' = Call("load_dict", EmptyStr, data, res)
            /\ before' = root
            /\ UNCHANGED <<strict_mode, file>>

SetStrictMode ==
    /\ last = NoCall
    /\ \E enabled \in BOOLEAN :
        /\ strict_mode' = set_strict_mode(enabled)
        /\ last' = Call("set_strict_mode", EmptyStr, PrimScalar(PyBool(enabled)),
                        Return(NoRet, root))
        /\ before' = root
        /\ UNCHANGED <<root, file>>

\* the caller has the outcome of its call and moves on
Resume ==
    /\ last # NoCall
    /\ last' = NoCall
    /\ before' = root
    /\ UNCHANGED <<root, strict_mode, file>>

SaveToBin ==
    /\ last = NoCall
    /\ LET res == save_to_bin(root, file)
       IN  /\ file' = res.file
           /\ last' = Call("save_to_bin", EmptyStr, NoRet, res)
           /\ before' = root
           /\ UNCHANGED <<root, strict_mode>>

LoadFromBin ==
    /\ last = NoCall
    /\ LET res == load_from_bin(root, file)
       IN  /\ root' = res.root
           /\ last' = Call("load_from_bin", EmptyStr, NoRet, res)
           /\ before' = root
           /\ UNCHANGED <<strict_mode, file>>

\* set, as a caller that builds a tree entry by entry uses it
SetEntry ==
    /\ last = NoCall
    /\ \E p \in EntryPaths, v \in Scalars :
        LET res == set(root, strict_mode, p, v)
        IN  /\ Size(res.root) <= MaxNodes
            /\ root' = res.root
            /\ last' = Call("set", p, PrimScalar(v), res)
            /\ before' = root
            /\ UNCHANGED <<strict_mode, file>>

Next == Get \/ Set \/ Delete \/ LoadDict \/ SetStrictMode \/ Resume

Spec == Init /\ [][Next]_vars

\* a tree built by set calls, saved and loaded back
NextBin == SetEntry \/ SaveToBin \/ LoadFromBin \/ Resume

SpecBin == Init /\ [][NextBin]_vars

(***************************************************************************)
(* Vocabulary of the properties.                                           *)
(***************************************************************************)
Valid(path) == _split(path).raised = "none"
Parts(path) == _split(path).parts

\* the keys lead from node to a node
RECURSIVE Resolves(_, _)
Resolves(node, keys) ==
    \/ keys = <<>>
    \/ /\ Head(keys) \in DOMAIN node.children
       /\ Resolves(node.children[Head(keys)], Tail(keys))

HoldsScalar(node) == node.type # NoType
HasChildren(node) == DOMAIN node.children # {}

\* no node of the subtree both holds a scalar and owns children
RECURSIVE Exclusive(_)
Exclusive(node) ==
    /\ ~(HoldsScalar(node) /\ HasChildren(node))
    /\ \A k \in DOMAIN node.children : Exclusive(node.children[k])

Returned(op) == last.op = op /\ last.raised = "none"
Raised(op, exc) == last.op = op /\ last.raised = exc

(***************************************************************************)
(* C1: in every reachable state no node of the tree both holds a scalar    *)
(* value and owns children.  The code breaks it: a non-strict set whose    *)
(* path passes through a leaf (set("a", 1) then set("a.a", 2)) attaches    *)
(* the new child to the leaf, which keeps its value.                       *)
(***************************************************************************)
C1_MutualExclusion == Exclusive(root)

(***************************************************************************)
(* C2: after set(p, v) has returned, get(p) returns v, of the same scalar  *)
(* kind as given, also where p held a value of another kind before.        *)
(***************************************************************************)
C2_SetThenGet ==
    Returned("set") =>
        LET g == get(root, strict_mode, last.path)
        IN  /\ g.raised = "none"
            /\ g.ret = last.arg
            /\ g.ret.tag = "scalar"
            /\ g.ret.val.kind = last.arg.val.kind

C2_Witness ==
    /\ Returned("set")
    /\ Resolves(before, Parts(last.path))
    /\ HoldsScalar(NodeAt(before, Parts(last.path)))
    /\ NodeAt(before, Parts(last.path)).value.kind # last.arg.val.kind

(***************************************************************************)
(* C3: after delete(p) has returned, true or false, get(p) fails with      *)
(* PathNotFound.  The code breaks it for a path with a segment that ends   *)
(* in a blank ("a .a"): delete looks for the parent under the trimmed      *)
(* name "a", finds nothing to remove and returns false, and get("a .a")    *)
(* still returns the value.  (delete("root") does not return: see C9.)     *)
(***************************************************************************)
C3_DeleteThenGet ==
    Returned("delete") =>
        get(root, strict_mode, last.path).raised = "ConfigPathNotFoundError"

(***************************************************************************)
(* C4: set on a path whose node owns children fails with                   *)
(* NodeStructureError and leaves the whole tree as it was.                 *)
(***************************************************************************)
C4_SetOnInterior ==
    (/\ last.op = "set"
     /\ Valid(last.path)
     /\ Resolves(before, Parts(last.path))
     /\ HasChildren(NodeAt(before, Parts(last.path))))
    => /\ last.raised = "ConfigNodeStructureError"
       /\ root = before
       /\ to_dict(root) = to_dict(before)

C4_Witness ==
    /\ Raised("set", "ConfigNodeStructureError")
    /\ Parts(last.path) = <<Str_a>>
    /\ HasChildren(NodeAt(before, <<Str_a>>))
    /\ root = before

(***************************************************************************)
(* C5: under strict mode, set on a path with a missing node along it fails *)
(* with StrictModeViolation and creates nothing.                           *)
(***************************************************************************)
C5_StrictSetCreatesNothing ==
    (/\ last.op = "set"
     /\ strict_mode
     /\ Valid(last.path)
     /\ ~Resolves(before, Parts(last.path)))
    => /\ last.raised = "ConfigStrictModeError"
       /\ root = before

C5_Witness ==
    /\ Raised("set", "ConfigStrictModeError")
    /\ strict_mode
    /\ Parts(last.path) = <<Str_a, Str_a>>
    /\ ~Resolves(before, <<Str_a>>)
    /\ ~Resolves(root, <<Str_a>>)

(***************************************************************************)
(* C6: a load_dict that fails leaves the tree exactly as it was.  The code *)
(* breaks it: the fresh root is installed before the keys are looked at,   *)
(* so a key that is not a string makes the call fail with the old tree     *)
(* gone and the pairs before that key loaded.                              *)
(***************************************************************************)
C6_LoadAllOrNothing ==
    (last.op = "load_dict" /\ last.raised # "none") => root = before

(***************************************************************************)
(* C7: delete on a valid path that does not resolve returns false and      *)
(* leaves the tree unchanged (the single segment root, which delete        *)
(* refuses whatever the tree holds, left aside: C9).  The code breaks it:  *)
(* delete("a .a") where only "a.a" exists trims the parent name, removes   *)
(* "a.a" and returns true.                                                 *)
(***************************************************************************)
C7_DeleteMissingReturnsFalse ==
    (/\ last.op = "delete"
     /\ Valid(last.path)
     /\ Parts(last.path) # <<Str_root>>
     /\ ~Resolves(before, Parts(last.path)))
    => /\ last.raised = "none"
       /\ last.ret = PrimScalar(PyBool(FALSE))
       /\ root = before

\* parts extends prefix, or is prefix
Extends(parts, prefix) ==
    /\ Len(prefix) <= Len(parts)
    /\ SubSeq(parts, 1, Len(prefix)) = prefix

(***************************************************************************)
(* C8: after delete(p) has returned true, get fails with PathNotFound for  *)
(* p and for every path that extends p.  The code breaks it: with both     *)
(* "a .a" and "a.a" in the tree, delete("a .a") removes "a.a", returns     *)
(* true, and get("a .a") still succeeds.                                   *)
(***************************************************************************)
C8_DeleteRemovesSubtree ==
    (Returned("delete") /\ last.ret = PrimScalar(PyBool(TRUE)))
    => \A q \in PathInputs :
          (Valid(q) /\ Extends(Parts(q), Parts(last.path)))
          => get(root, strict_mode, q).raised = "ConfigPathNotFoundError"

(***************************************************************************)
(* C9: delete of a path that normalizes to the single segment root fails   *)
(* with NodeStructureError whatever the tree holds and whatever the strict *)
(* mode, the tree is unchanged by it, and the root is never removed nor    *)
(* given a scalar.                                                         *)
(***************************************************************************)
C9_DeleteRootRefused ==
    /\ (last.op = "delete" /\ Valid(last.path) /\ Parts(last.path) = <<Str_root>>)
       => /\ last.raised = "ConfigNodeStructureError"
          /\ root = before
    /\ root.name = Str_root
    /\ ~HoldsScalar(root)
    /\ root.value = NoneValue

C9_Witness ==
    /\ Raised("delete", "ConfigNodeStructureError")
    /\ last.path = Space \o Str_root \o Space
    /\ strict_mode
    /\ Resolves(root, <<Str_root>>)
    /\ Resolves(root, <<Str_a>>)

\* the mapping a dict argument denotes: pair order dropped
RECURSIVE AsMapping(_)
AsMapping(data) ==
    IF data.tag = "dict"
    THEN PrimDict([k \in {data.items[i].key.repr : i \in DOMAIN data.items} |->
                     LET i == CHOOSE j \in DOMAIN data.items : data.items[j].key.repr = k
                     IN  AsMapping(data.items[i].value)])
    ELSE PrimScalar(data.val)

(***************************************************************************)
(* C10: to_dict of a tree with no entries is the empty mapping, and after  *)
(* load_dict(d) has returned, to_dict is d, whatever the tree held before. *)
(***************************************************************************)
C10_LoadThenToDict ==
    /\ ~HasChildren(root) => to_dict(root) = EmptyDict
    /\ Returned("load_dict") => to_dict(root) = AsMapping(last.arg)

C10_Witness ==
    /\ Returned("load_dict")
    /\ Resolves(before, <<Str_a, Str_a>>)
    /\ Resolves(root, <<Str_root, Str_a>>)
    /\ ~Resolves(root, <<Str_a>>)

C12_StrictToggle ==
    /\ last.op = "set_strict_mode" =>
          /\ last.raised = "none"
          /\ root = before
          /\ PrimScalar(PyBool(strict_mode)) = last.arg
    /\ last = NoCall =>
          \A p \in PathInputs :
              /\ get(root, TRUE, p) = get(root, FALSE, p)
              /\ delete(root, TRUE, p) = delete(root, FALSE, p)
              /\ (Valid(p) /\ ~Resolves(root, Parts(p))) =>
                    set(root, strict_mode, p, NoneValue).raised =
                        IF strict_mode THEN "ConfigStrictModeError" ELSE "none"
    /\ (last.op = "set" /\ Valid(last.path) /\ ~Resolves(before, Parts(last.path))) =>
          last.raised = IF strict_mode THEN "ConfigStrictModeError" ELSE "none"

C12_Witness ==
    /\ last.op = "set_strict_mode"
    /\ last.arg = PrimScalar(PyBool(FALSE))
    /\ ~strict_mode
    /\ root = before
    /\ Resolves(root, <<Str_a, Str_a>>)
    /\ ~Exclusive(root)

(***************************************************************************)
(* C13: after a set(p, v) that returned with strict mode off, every proper *)
(* prefix of p resolves to an interior node (a node without a scalar,      *)
(* whose get is a mapping that contains the next segment), p holds v, and  *)
(* every path that is neither p nor a prefix of p has the get outcome it   *)
(* had before the call.  The code breaks it: set("a", 1) then              *)
(* set("a.a", 2) returns, and the prefix "a" is a node that still holds    *)
(* the scalar 1 (see C1).                                                  *)
(***************************************************************************)
C13_SetCreatesInteriorPrefixes ==
    (Returned("set") /\ ~strict_mode) =>
        LET parts == Parts(last.path)
        IN  /\ \A k \in 1..(Len(parts) - 1) :
                  LET prefix == SubSeq(parts, 1, k)
                      g == get(root, strict_mode, join(prefix))
                  IN  /\ Resolves(root, prefix)
                      /\ ~HoldsScalar(NodeAt(root, prefix))
                      /\ Parts(join(prefix)) = prefix =>
                            /\ g.raised = "none"
                            /\ g.ret.tag = "dict"
                            /\ parts[k + 1] \in DOMAIN g.ret.items
            /\ get(root, strict_mode, last.path).ret = last.arg
            /\ \A q \in PathInputs :
                  (Valid(q) /\ ~Extends(parts, Parts(q)))
                  => LET now == get(root, strict_mode, q)
                         was == get(before, strict_mode, q)
                     IN  now.raised = was.raised /\ now.ret = was.ret

(***************************************************************************)
(* C14: get is a pure read.  Under either value of strict mode a get on a  *)
(* valid path that does not resolve fails with PathNotFound, and every     *)
(* get, failed or returned, leaves the tree as it was: no node is created  *)
(* and to_dict is the same before and after.                               *)
(***************************************************************************)
C14_GetIsPure ==
    last.op = "get" =>
        /\ root = before
        /\ to_dict(root) = to_dict(before)
        /\ (Valid(last.path) /\ ~Resolves(before, Parts(last.path)))
           => last.raised = "ConfigPathNotFoundError"
        /\ (Valid(last.path) /\ Resolves(before, Parts(last.path)))
           => last.raised = "none"

C14_Witness ==
    /\ Raised("get", "ConfigPathNotFoundError")
    /\ ~strict_mode
    /\ Parts(last.path) = <<Str_a, Str_a>>
    /\ Resolves(before, <<Str_root>>)
    /\ ~Resolves(root, <<Str_a>>)
    /\ root = before

\* s with one more blank at an end of the whole path, or one more empty
\* segment at its front or at its end
Variants(s) == {Space \o s, s \o Space, Dot \o s, s \o Dot}

\* set, get and delete do on the tree with path t what they do with path s
SameOutcome(s, t) ==
    /\ get(root, strict_mode, s) = get(root, strict_mode, t)
    /\ delete(root, strict_mode, s) = delete(root, strict_mode, t)
    /\ \A v \in Scalars : set(root, strict_mode, s, v) = set(root, strict_mode, t, v)

\* a call with a path without segments fails with InvalidPath, tree as it was
InvalidPathRefused ==
    (last.op \in {"set", "get", "delete"} /\ last.path \in {EmptyStr, Space, Dot})
    => /\ last.raised = "ConfigInvalidPathError"
       /\ root = before

(***************************************************************************)
(* C15, as claimed: any two path strings that differ only by a blank at an *)
(* end of the whole path or by an empty segment give the same outcome for  *)
(* set, get and delete; and an empty, blank or dot-only path fails with    *)
(* InvalidPath, tree unchanged.  The first half does not hold: " a " and   *)
(* ". a " differ by one empty segment, yet the blanks are trimmed before   *)
(* the split, so the first names the node "a" and the second the node      *)
(* " a".                                                                   *)
(***************************************************************************)
C15_AnyDecoration ==
    /\ last = NoCall =>
          \A s \in PathInputs \ {PyNone} : \A t \in Variants(s) : SameOutcome(s, t)
    /\ InvalidPathRefused

(***************************************************************************)
(* C15, amended: for a path whose first segment does not begin and whose   *)
(* last segment does not end with a blank, the path as it is, with blanks  *)
(* around it, with a dot before and after it, and with its dots doubled,   *)
(* all split into the same segments and give the same outcome for set, get *)
(* and delete; and an empty, blank or dot-only path fails with             *)
(* InvalidPath, tree unchanged.                                            *)
(***************************************************************************)
C15_Normalization ==
    /\ last = NoCall =>
          \A parts \in PathParts : \A w \in Written(parts) :
              /\ Parts(w) = parts
              /\ SameOutcome(join(parts), w)
    /\ InvalidPathRefused

C15_Witness ==
    /\ Raised("delete", "ConfigInvalidPathError")
    /\ last.path = Dot
    /\ Resolves(root, <<Str_a, Str_a>>)
    /\ get(root, strict_mode, Space \o join(<<Str_a, Str_a>>) \o Space).raised = "none"
    /\ get(root, strict_mode, join(Doubled(<<Str_a, Str_a>>))).raised = "none"

(***************************************************************************)
(* C16: a node left without children by a delete is kept and projects to   *)
(* an empty mapping: after delete(p) has returned true where p was the     *)
(* only child of its parent (as after set("a.b", v), delete("a.b")), get   *)
(* on the parent returns an empty mapping and to_dict maps the parent's    *)
(* name to an empty mapping.  The code breaks it: after set("a", 1),       *)
(* set("a.a", 2), delete("a.a") the node a is still a leaf with value 1    *)
(* (see C1), and get("a") returns the scalar 1.                            *)
(***************************************************************************)
C16_EmptyInteriorKept ==
    LET parts == Parts(last.path)
        parent == SubSeq(parts, 1, Len(parts) - 1)
    IN  (/\ Returned("delete")
         /\ last.ret = PrimScalar(PyBool(TRUE))
         /\ Len(parts) >= 2
         /\ Resolves(before, parts)
         /\ DOMAIN NodeAt(before, parent).children = {parts[Len(parts)]})
        => LET g == get(root, strict_mode, join(parent))
           IN  /\ g.raised = "none"
               /\ g.ret = EmptyDict
               /\ Len(parent) = 1 =>
                     /\ to_dict(root).tag = "dict"
                     /\ parent[1] \in DOMAIN to_dict(root).items
                     /\ to_dict(root).items[parent[1]] = EmptyDict

(***************************************************************************)
(* C17: while strict mode is on no set adds a node: after a set, returned  *)
(* or failed, the tree has as many nodes as before and the same paths      *)
(* resolve.  A strict set returns only on a path that resolved, before the *)
(* call, to a node without children; and a strict set on a path of which   *)
(* only the last segment is missing (a single segment on an empty tree     *)
(* included) fails with StrictModeViolation.                               *)
(***************************************************************************)
C17_StrictSetAddsNoNode ==
    (last.op = "set" /\ strict_mode) =>
        /\ Size(root) = Size(before)
        /\ \A q \in PathInputs :
              Valid(q) => (Resolves(root, Parts(q)) <=> Resolves(before, Parts(q)))
        /\ last.raised = "none" =>
              /\ Resolves(before, Parts(last.path))
              /\ ~HasChildren(NodeAt(before, Parts(last.path)))
        /\ (/\ Valid(last.path)
            /\ Resolves(before, SubSeq(Parts(last.path), 1, Len(Parts(last.path)) - 1))
            /\ ~Resolves(before, Parts(last.path)))
           => /\ last.raised = "ConfigStrictModeError"
              /\ root = before

C17_Witness ==
    /\ Raised("set", "ConfigStrictModeError")
    /\ strict_mode
    /\ Parts(last.path) = <<Str_a>>
    /\ ~HasChildren(before)
    /\ ~HasChildren(root)

(***************************************************************************)
(* C18: delete(p), for p other than the single segment root, returns true  *)
(* exactly when p resolved before the call, and removes only the subtree   *)
(* at p: a path that neither is p nor extends p resolves afterwards        *)
(* exactly if it resolved before, with the value and the kind it had.  The *)
(* code breaks it: with only "a.a" in the tree, delete("a .a") looks for   *)
(* the parent under the trimmed name "a", removes "a.a" and returns true,  *)
(* though "a .a" did not resolve.                                          *)
(***************************************************************************)
C18_DeleteRemovesOnlySubtree ==
    (/\ last.op = "delete"
     /\ Valid(last.path)
     /\ Parts(last.path) # <<Str_root>>)
    => /\ last.raised = "none"
       /\ last.ret = PrimScalar(PyBool(Resolves(before, Parts(last.path))))
       /\ \A q \in PathInputs :
             (Valid(q) /\ ~Extends(Parts(q), Parts(last.path)))
             => /\ Resolves(root, Parts(q)) <=> Resolves(before, Parts(q))
                /\ Resolves(before, Parts(q)) =>
                      /\ NodeAt(root, Parts(q)).value = NodeAt(before, Parts(q)).value
                      /\ NodeAt(root, Parts(q)).type = NodeAt(before, Parts(q)).type

====
